---- MODULE Spec2Model ----
(***************************************************************************)
(* Model of script.js: the cleanup registry, the Wave Field                *)
(* (initWaveVisualization) and the Particle Field (initVoidCanvas), driven *)
(* by the browser's event loop and requestAnimationFrame.                  *)
(*                                                                         *)
(* Real numbers are fixed-point integers:                                  *)
(*   Particle Field positions, sizes, alphas   : 1/U px      (U = 10000)   *)
(*   Particle Field velocities                 : 1/(U*V) px  (V = 100)     *)
(*   Math.random() results                     : 1/RandScale               *)
(*   angles                                    : milliradians              *)
(*   Math.sin results                          : 1/SinScale                *)
(*   Wave Field pointer coordinates            : 1/WU px     (WU = 100)    *)
(*   Wave Field amplitudes                     : 1/AmpScale px             *)
(*   Wave Field ordinates                      : 1/YScale px               *)
(***************************************************************************)
EXTENDS Integers, Sequences, FiniteSets, TLC

VARIABLES
  loaded,            \* the deferInit callback of DOMContentLoaded has run
  abortControllers,  \* cleanupRegistry.abortControllers
  aborted,           \* controllers whose signal is aborted
  listeners,         \* event listeners currently registered, by owner and type
  rafQueue,          \* pending requestAnimationFrame callbacks [id, cb]
  rafNext,           \* the id the next requestAnimationFrame returns
  waveCanvas,        \* Wave Field canvas [width, height]
  devicePixelRatio,  \* window.devicePixelRatio
  targetMouse,       \* Wave Field raw pointer
  waveMouse,         \* Wave Field displayed pointer (mouse)
  waveTime,          \* Wave Field time
  waveAnimationId,   \* Wave Field animationId
  isVisible,
  animationStarted,
  scrollTrigger,     \* "none", "armed" or "fired" (once: true)
  waveLog,           \* what the last draw() traced
  width,             \* Particle Field canvas width
  height,
  particleLayers,
  mouse,             \* Particle Field pointer
  time,              \* Particle Field frame counter
  animationId,       \* Particle Field animationId
  voidLog,           \* what the last animate() painted
  canvasOk,          \* which canvases and 2D contexts the document offered
  waveSample,        \* last pointer/touch sample dispatched to the wave container
  voidSample,        \* last pointer/touch sample dispatched to the window
  dataTheme,         \* data-theme attribute of the root element
  storedTheme,       \* localStorage 'theme'
  systemLight,       \* (prefers-color-scheme: light) matches
  themeCache,        \* themeCache {canvasFade, waveColor}
  intervals,         \* cleanupRegistry.intervals
  timeouts,          \* cleanupRegistry.timeouts
  timers,            \* the browser's pending timers [id, kind, cb]
  timerNext,         \* the id the next setTimeout / setInterval returns
  konamiIndex,
  isAnimating,
  messages,          \* .konami-message elements in the body
  messageVisible,    \* the message has the class visible
  recentKeys,        \* latest keydown codes heard, while they can begin a Konami entry
  sigGlitching,      \* #end-sig has the class glitching
  ticking,           \* initScrollProgress ticking
  scrollY,           \* window.scrollY
  progress,          \* width of #scroll-progress in percent
  progressStale      \* a scroll event was heard since updateProgress last ran

registryVars == <<abortControllers, aborted, listeners, rafQueue, rafNext>>

waveVars ==
  <<waveCanvas, targetMouse, waveMouse, waveTime, waveAnimationId, isVisible,
    animationStarted, scrollTrigger, waveLog>>

voidVars == <<width, height, particleLayers, mouse, time, animationId, voidLog>>

themeVars == <<dataTheme, storedTheme, systemLight, themeCache>>

\* The input events dispatched so far, as far as the pointer is concerned
sampleVars == <<waveSample, voidSample>>

timerVars == <<intervals, timeouts, timers, timerNext>>

konamiVars == <<konamiIndex, isAnimating, messages, messageVisible, recentKeys>>

scrollVars == <<ticking, scrollY, progress, progressStale>>

\* The collaborators set up by the deferred initialisation besides the two
\* canvases
pageVars == <<timerVars, konamiVars, scrollVars, sigGlitching>>

vars ==
  <<loaded, devicePixelRatio, canvasOk, themeVars, sampleVars, registryVars,
    waveVars, voidVars, pageVars>>

\* A pointer {x, y}: both coordinates null (absent) or both numbers
NoPointer == [present |-> FALSE, x |-> 0, y |-> 0]

Pointer(x, y) == [present |-> TRUE, x |-> x, y |-> y]

\* animationId before the first request (null, falsy)
NoId == 0

\* ---------------------------------------------------------------- units
U == 10^4
V == 10^2
RandScale == 10^4
SinScale == 10^3
\* Math.PI in milliradians
PiMilli == 3142

\* ---------------------------------------------------------------- bounds
\* frames each subsystem runs
MaxFrames == 2

\* requestAnimationFrame handles handed out before the theme toggle and the
\* scroll listener rest
MaxRequests == 3

\* timers created (ids 1 .. MaxTimers)
MaxTimers == 4

\* ---------------------------------------------------------------- arithmetic
Abs(a) == IF a < 0 THEN -a ELSE a

Sign(a) == IF a < 0 THEN -1 ELSE IF a > 0 THEN 1 ELSE 0

Max2(a, b) == IF a >= b THEN a ELSE b

Min2(a, b) == IF a <= b THEN a ELSE b

\* JavaScript number division of a by b (b > 0), result truncated toward zero
\* at the fixed-point resolution.
TDiv(a, b) == IF a >= 0 THEN a \div b ELSE -((-a) \div b)

\* Division of non-negative a by b > 0 rounded up: a non-zero quotient never
\* becomes zero.
CeilDiv(a, b) == (a + b - 1) \div b

RECURSIVE SqrtIter(_, _, _)
SqrtIter(n, lo, hi) ==
  IF lo >= hi THEN lo
  ELSE LET mid == (lo + hi + 1) \div 2
       IN IF mid * mid <= n THEN SqrtIter(n, mid, hi) ELSE SqrtIter(n, lo, mid - 1)

\* Math.sqrt on non-negative integers below 2^31 (floor of the root).
ISqrt(n) == SqrtIter(n, 0, 46340)

\* Math.sqrt(dx*dx + dy*dy) for |dx|, |dy| below 2^21 units: exact when the
\* offset is axis-aligned, otherwise computed on operands scaled by 64 and
\* never below the larger leg.
Dist(dx, dy) ==
  IF dy = 0 THEN Abs(dx)
  ELSE IF dx = 0 THEN Abs(dy)
  ELSE LET a == Abs(dx) \div 64
           b == Abs(dy) \div 64
       IN Max2(Max2(Abs(dx), Abs(dy)), 64 * ISqrt(a * a + b * b))

\* Math.sin of an angle in milliradians, scaled by SinScale (Bhaskara's
\* rational approximation on a half period, pi taken as 3.142).
SinHalf(x) ==
  LET q == x * (PiMilli - x)
  IN (((16 * q) \div 100) * SinScale) \div ((5 * PiMilli * PiMilli - 4 * q) \div 100)

Sin(a) ==
  LET r == a % (2 * PiMilli)
  IN IF r <= PiMilli THEN SinHalf(r) ELSE -SinHalf(r - PiMilli)

\* Math.round(n / d) for d > 0: floor(n/d + 1/2).
RoundDiv(n, d) == (2 * n + d) \div (2 * d)

\* ---------------------------------------------------------------- Math.random
\* Math.random() is a hidden deterministic generator: the k-th call after a
\* reseeding returns the next entry of a fixed cycle of values in [0, 1).
RandTable == <<0, 9999, 5000, 2500, 9000, 1, 7500>>

Random(seed, k) == RandTable[((seed + k) % Len(RandTable)) + 1]

\* where in the cycle a (re)initialisation finds the generator
Seeds == {0, 1}

\* ---------------------------------------------------------------- Particle Field
\* const colors
Colors ==
  << [r |-> 0, g |-> 255, b |-> 157],
     [r |-> 0, g |-> 212, b |-> 255],
     [r |-> 120, g |-> 100, b |-> 255] >>

\* shiftColor(colors[colorIndex], offset), offset in milliradians; shift is
\* kept doubled and scaled by SinScale.
shiftColor(colorIndex, offset) ==
  LET shift2 == Sin(offset) + SinScale
      color == Colors[colorIndex + 1]
      nextColor == Colors[((colorIndex + 1) % Len(Colors)) + 1]
      mix(c, n) == RoundDiv(c * 20 * SinScale + (n - c) * shift2 * 3, 20 * SinScale)
  IN [r |-> mix(color.r, nextColor.r),
      g |-> mix(color.g, nextColor.g),
      b |-> mix(color.b, nextColor.b)]

\* layerFactor = 1 - layer * 0.3, in tenths
LayerFactor10(layer) == 10 - 3 * layer

\* new Particle(layer): the constructor followed by reset(); the nine
\* Math.random() calls are numbered k0 .. k0 + 8 in source order.
NewParticle(layer, w, h, seed, k0) ==
  LET lf == LayerFactor10(layer)
      rnd(i) == Random(seed, k0 + i)
      bs == (((rnd(2) * 3) \div 2 + 5000) * lf) \div 10
      ba == (((rnd(5) * 3) \div 10 + 1000) * lf) \div 10
  IN [layer |-> layer,
      x |-> rnd(0) * w * (U \div RandScale),
      y |-> rnd(1) * h * (U \div RandScale),
      baseSize |-> bs,
      size |-> bs,
      vx |-> (rnd(3) - 5000) * 2 * lf * ((U * V) \div (RandScale * 100)),
      vy |-> (rnd(4) - 5000) * 2 * lf * ((U * V) \div (RandScale * 100)),
      baseAlpha |-> ba,
      alpha |-> ba,
      colorIndex |-> (rnd(6) * Len(Colors)) \div RandScale,
      pulseOffset |-> (rnd(7) * 2 * PiMilli) \div RandScale,
      pulseSpeed |-> 20 + (rnd(8) * 20) \div RandScale,
      fillColor |-> << >>,
      glowColor |-> << >>]

\* repelRadius = 120 * (1 - layer * 0.2)
RepelRadius(layer) == (120 * U * (10 - 2 * layer)) \div 10

\* The front layer's force for every layer
LayerForceFlat(layer) == (15 * U * 10) \div 10000

\* layerForce = 0.015 * (1 - layer * 0.3)
LayerForce(layer) == (15 * U * LayerFactor10(layer)) \div 10000

\* The push with its sign reversed (towards the pointer)
RepelTermTowards(d, dist, layer) ==
  LET radius == RepelRadius(layer)
      ratio == CeilDiv(Abs(d) * 1000, dist)
      force == CeilDiv((radius - dist) * 1000, radius)
  IN -Sign(d) * CeilDiv(ratio * force * LayerForce(layer), 1000000)

\* (d / dist) * force * layerForce for one axis, force = (repelRadius - dist) /
\* repelRadius, in 1/U px; the magnitude is rounded up so that a non-zero push
\* stays non-zero.
RepelTerm(d, dist, layer) ==
  LET radius == RepelRadius(layer)
      ratio == CeilDiv(Abs(d) * 1000, dist)
      force == CeilDiv((radius - dist) * 1000, radius)
  IN Sign(d) * CeilDiv(ratio * force * LayerForce(layer), 1000000)

\* The velocity after the pointer-repulsion block of Particle.update, for a
\* particle already moved to (x, y); m is mouse.
Repel(p, x, y, m) ==
  IF ~m.present THEN [vx |-> p.vx, vy |-> p.vy]
  ELSE LET dx == m.x - x
           dy == m.y - y
           radius == RepelRadius(p.layer)
       IN IF Abs(dx) >= radius \/ Abs(dy) >= radius
          THEN [vx |-> p.vx, vy |-> p.vy]
          ELSE LET dist == Dist(dx, dy)
               IN IF dist < radius /\ dist > 0
                  THEN [vx |-> p.vx - V * RepelTerm(dx, dist, p.layer),
                        vy |-> p.vy - V * RepelTerm(dy, dist, p.layer)]
                  ELSE [vx |-> p.vx, vy |-> p.vy]

\* A damping factor above one
DampGrows(v) == TDiv(v * 101, 100)

\* this.vx *= 0.99
Damp(v) == TDiv(v * 99, 100)

\* Wrap without the edge tests
WrapNever(c, limit) == c

\* if (c < 0) c = limit; if (c > limit) c = 0;
Wrap(c, limit) ==
  LET c1 == IF c < 0 THEN limit ELSE c
  IN IF c1 > limit THEN 0 ELSE c1

\* Particle.update() reading the counter as it was before time++
ParticleUpdateStale(p, m, t, w, h) ==
  LET pulse == Sin((t - 1) * p.pulseSpeed + p.pulseOffset)
      size == TDiv(p.baseSize * (10 * SinScale + 3 * pulse), 10 * SinScale)
      alpha == TDiv(p.baseAlpha * (10 * SinScale + 2 * pulse), 10 * SinScale)
      x1 == p.x + TDiv(p.vx, V)
      y1 == p.y + TDiv(p.vy, V)
      v == Repel(p, x1, y1, m)
      x2 == Wrap(x1, w * U)
      y2 == Wrap(y1, h * U)
      shifted == shiftColor(p.colorIndex, (t - 1) + (x2 \div U))
  IN [p EXCEPT !.size = size,
               !.alpha = alpha,
               !.x = x2,
               !.y = y2,
               !.vx = Damp(v.vx),
               !.vy = Damp(v.vy),
               !.fillColor = <<shifted.r, shifted.g, shifted.b, alpha>>,
               !.glowColor = <<shifted.r, shifted.g, shifted.b, TDiv(alpha * 3, 10)>>]

\* Particle.update() with the frame counter t, pointer m and canvas w x h (px)
ParticleUpdate(p, m, t, w, h) ==
  LET pulse == Sin(t * p.pulseSpeed + p.pulseOffset)
      size == TDiv(p.baseSize * (10 * SinScale + 3 * pulse), 10 * SinScale)
      alpha == TDiv(p.baseAlpha * (10 * SinScale + 2 * pulse), 10 * SinScale)
      x1 == p.x + TDiv(p.vx, V)
      y1 == p.y + TDiv(p.vy, V)
      v == Repel(p, x1, y1, m)
      x2 == Wrap(x1, w * U)
      y2 == Wrap(y1, h * U)
      shifted == shiftColor(p.colorIndex, t + (x2 \div U))
  IN [p EXCEPT !.size = size,
               !.alpha = alpha,
               !.x = x2,
               !.y = y2,
               !.vx = Damp(v.vx),
               !.vy = Damp(v.vy),
               !.fillColor = <<shifted.r, shifted.g, shifted.b, alpha>>,
               !.glowColor = <<shifted.r, shifted.g, shifted.b, TDiv(alpha * 3, 10)>>]

\* count = Math.floor(baseCount * (1 - layer * 0.3)) with
\* baseCount = Math.min(80, Math.floor((width * height) / 25000))
BaseCount(w, h) == Min2(80, (w * h) \div 25000)

\* The count rounded to nearest instead of down
LayerCountRounded(w, h, layer) == RoundDiv(BaseCount(w, h) * LayerFactor10(layer), 10)

LayerCount(w, h, layer) == (BaseCount(w, h) * LayerFactor10(layer)) \div 10

\* new Particle() without the layer argument (the parameter defaults to 0)
MakeLayerDefault(layer, w, h, seed, first) ==
  [i \in 1 .. LayerCount(w, h, layer) |->
     NewParticle(0, w, h, seed, 9 * (first + i - 1))]

\* The particles initParticles pushes into particleLayers[layer]; first is the
\* number of particles constructed before this layer.
MakeLayer(layer, w, h, seed, first) ==
  [i \in 1 .. LayerCount(w, h, layer) |->
     NewParticle(layer, w, h, seed, 9 * (first + i - 1))]

\* initParticles() without the reset of particleLayers: the new particles are
\* pushed behind the old ones
initParticlesKeep(w, h, seed) ==
  LET n0 == LayerCount(w, h, 0)
      n1 == LayerCount(w, h, 1)
  IN << particleLayers[1] \o MakeLayer(0, w, h, seed, 0),
        particleLayers[2] \o MakeLayer(1, w, h, seed, n0),
        particleLayers[3] \o MakeLayer(2, w, h, seed, n0 + n1) >>

\* initParticles(): particleLayers, indexed 1..3 for layers 0..2
initParticles(w, h, seed) ==
  LET n0 == LayerCount(w, h, 0)
      n1 == LayerCount(w, h, 1)
  IN << MakeLayer(0, w, h, seed, 0),
        MakeLayer(1, w, h, seed, n0),
        MakeLayer(2, w, h, seed, n0 + n1) >>

\* connectionDistance = 100
ConnectionDistance == 100 * U

\* The line drawConnections strokes for the pair (i, j) of front-layer
\* particles, as a sequence of at most one paint operation; opacity
\* (1 - dist / connectionDistance) * 0.1 in units of 1/10000.
ConnectionLine(front, i, j) ==
  LET dx == front[i].x - front[j].x
      dy == front[i].y - front[j].y
  IN IF Abs(dx) >= ConnectionDistance \/ Abs(dy) >= ConnectionDistance
     THEN << >>
     ELSE LET dist == Dist(dx, dy)
          IN IF dist < ConnectionDistance
             THEN << [op |-> "line", i |-> i - 1, j |-> j - 1,
                      from |-> <<front[i].x, front[i].y>>,
                      to |-> <<front[j].x, front[j].y>>,
                      opacity |-> ((ConnectionDistance - dist) * 1000)
                                    \div ConnectionDistance] >>
             ELSE << >>

\* The inner loop for p1 = front[i]: j = from .. len - 1
RECURSIVE ConnectionsRow(_, _, _)
ConnectionsRow(front, i, j) ==
  IF j > Len(front) THEN << >>
  ELSE ConnectionLine(front, i, j) \o ConnectionsRow(front, i, j + 1)

\* The outer loop with the inner loop started at 0 instead of i + 1
RECURSIVE ConnectionsFromAll(_, _)
ConnectionsFromAll(front, i) ==
  IF i > Len(front) THEN << >>
  ELSE ConnectionsRow(front, i, 1) \o ConnectionsFromAll(front, i + 1)

\* The outer loop: i = from .. len - 1
RECURSIVE ConnectionsFrom(_, _)
ConnectionsFrom(front, i) ==
  IF i > Len(front) THEN << >>
  ELSE ConnectionsRow(front, i, i + 1) \o ConnectionsFrom(front, i + 1)

\* drawConnections(): the lines stroked, in order
drawConnections(layers) == ConnectionsFrom(layers[1], 1)

\* The p.update() and p.draw() calls animate() makes for one layer, in order
LayerOps(layers, layer) ==
  [k \in 1 .. 2 * Len(layers[layer + 1]) |->
     [op |-> IF k % 2 = 1 THEN "update" ELSE "draw",
      layer |-> layer, index |-> (k - 1) \div 2]]

\* animate() with the layer loop running front to back
animateFrontFirst(layers, m, t, w, h) ==
  LET updated ==
        [l \in 1 .. 3 |->
           [i \in 1 .. Len(layers[l]) |-> ParticleUpdate(layers[l][i], m, t, w, h)]]
  IN [layers |-> updated,
      log |-> << [op |-> "fillRect", fillStyle |-> themeCache.canvasFade,
                  w |-> w, h |-> h] >>
                \o LayerOps(layers, 0) \o LayerOps(layers, 1) \o LayerOps(layers, 2)
                \o drawConnections(updated)
                \o << [op |-> "requestAnimationFrame"] >>]

\* animate() up to the requestAnimationFrame call: the particles after the
\* frame and the paint operations in order; t is time after time++.
animate(layers, m, t, w, h) ==
  LET updated ==
        [l \in 1 .. 3 |->
           [i \in 1 .. Len(layers[l]) |-> ParticleUpdate(layers[l][i], m, t, w, h)]]
  IN [layers |-> updated,
      log |-> << [op |-> "fillRect", fillStyle |-> themeCache.canvasFade,
                  w |-> w, h |-> h] >>
                \o LayerOps(layers, 2) \o LayerOps(layers, 1) \o LayerOps(layers, 0)
                \o drawConnections(updated)
                \o << [op |-> "requestAnimationFrame"] >>]

\* ---------------------------------------------------------------- Wave Field
WU == 10^2

\* amplitudes in 1/AmpScale px, ordinates in 1/YScale px
AmpScale == 6 * WU

YScale == 2 * SinScale * AmpScale

\* influenceRadius = 150
InfluenceRadius == 150 * WU

\* baseAmplitude = 20 + layer * 10
BaseAmplitude(layer) == (20 + layer * 10) * AmpScale

\* frequency = 0.02 - layer * 0.005, in 1/1000
Frequency(layer) == 20 - layer * 5

\* speed = 0.03 + layer * 0.01, in 1/1000
Speed(layer) == 30 + layer * 10

\* A boost of the full 25 everywhere inside the radius
AmplitudeFlat(layer, x, m) ==
  IF m.present /\ Abs(x * WU - m.x) < InfluenceRadius
  THEN BaseAmplitude(layer) + 25 * AmpScale
  ELSE BaseAmplitude(layer)

\* The amplitude at sample x (px) given the displayed pointer m
Amplitude(layer, x, m) ==
  IF ~m.present THEN BaseAmplitude(layer)
  ELSE LET distFromMouse == Abs(x * WU - m.x)
       IN IF distFromMouse < InfluenceRadius
          THEN BaseAmplitude(layer)
                 + ((InfluenceRadius - distFromMouse) * 25 * AmpScale) \div InfluenceRadius
          ELSE BaseAmplitude(layer)

\* y computed with time already advanced
WaveYAdvanced(layer, x, t, amplitude, h) ==
  (h * YScale) \div 2
    + 2 * Sin(x * Frequency(layer) + (t + 1) * Speed(layer)) * amplitude
    + Sin(x * Frequency(layer) * 2 + ((t + 1) * Speed(layer) * 3) \div 2) * amplitude

\* y at sample x: h / 2 + sin(x * frequency + time * speed) * amplitude
\*                     + sin(x * frequency * 2 + time * speed * 1.5) * amplitude * 0.5
WaveY(layer, x, t, amplitude, h) ==
  (h * YScale) \div 2
    + 2 * Sin(x * Frequency(layer) + t * Speed(layer)) * amplitude
    + Sin(x * Frequency(layer) * 2 + (t * Speed(layer) * 3) \div 2) * amplitude

\* The samples x = 0, 2, 4, ... <= w of one layer's path
WavePath(layer, t, m, w, h) ==
  [k \in 1 .. ((w \div 2) + 1) |->
     LET x == 2 * (k - 1)
         amplitude == Amplitude(layer, x, m)
     IN [x |-> x, amplitude |-> amplitude, y |-> WaveY(layer, x, t, amplitude, h)]]

\* The displayed pointer snapped to the raw pointer
SmoothMouseSnap(m, target) ==
  IF ~target.present THEN NoPointer ELSE Pointer(target.x, target.y)

\* The displayed pointer after the smoothing step of draw()
SmoothMouse(m, target) ==
  IF ~target.present THEN NoPointer
  ELSE IF ~m.present THEN Pointer(target.x, target.y)
  ELSE Pointer(m.x + TDiv(target.x - m.x, 10), m.y + TDiv(target.y - m.y, 10))

\* The three paths draw() strokes, layer 0 first; alpha = 0.3 - layer * 0.08
\* in hundredths; t is the value of time the frame reads.
WaveStrokes(t, m, w, h) ==
  [l \in 1 .. 3 |->
     [layer |-> l - 1, time |-> t, alpha |-> 30 - (l - 1) * 8,
      strokeStyle |-> themeCache.waveColor,
      path |-> WavePath(l - 1, t, m, w, h)]]

\* ---------------------------------------------------------------- inputs
\* window.innerWidth x window.innerHeight
ViewportSizes == {<<200, 125>>, <<200, 250>>, <<250, 300>>}

\* viewports for the population counts: none, the steps of the budget, the
\* 800 x 600 scenario, and sizes past the cap of 80
CountSizes ==
  {<<0, 0>>, <<100, 100>>, <<158, 158>>, <<159, 158>>, <<200, 125>>, <<200, 250>>,
   <<250, 300>>, <<500, 500>>, <<800, 600>>, <<1000, 1999>>, <<1000, 2000>>,
   <<1920, 1080>>, <<2000, 2000>>}

\* the inputs of the two-subsystem specification
CoreSizes == {<<200, 125>>, <<200, 250>>}

CoreRects == {<<320, 100>>}

\* the page of the theme specification
ThemeSizes == {<<200, 125>>}

ThemeRects == {<<8, 4>>}

Pages == BOOLEAN \X BOOLEAN \X BOOLEAN

\* container.getBoundingClientRect() width x height
WaveRects == {<<320, 100>>, <<300, 120>>}

\* pointer positions relative to the Wave Field container
WavePointerSamples == {[x |-> 50 * WU, y |-> 10 * WU], [x |-> 200 * WU, y |-> 60 * WU]}

\* clientX / clientY of mouse events on the window
MouseSamples == {[x |-> 10 * U, y |-> 10 * U]}

\* The first particle of the deepest non-empty layer, as a set
Probe ==
  IF Len(particleLayers[3]) > 0 THEN {particleLayers[3][1]}
  ELSE IF Len(particleLayers[2]) > 0 THEN {particleLayers[2][1]}
  ELSE IF Len(particleLayers[1]) > 0 THEN {particleLayers[1][1]}
  ELSE {}

AimDistances(layer) == {1, 50 * U, RepelRadius(layer) - 1}

\* Touch points placed east of the probe particle: of where the next
\* update moves it before it looks at the pointer, and of where it is now.
TouchSamples ==
  UNION {{[x |-> p.x + TDiv(p.vx, V) + d, y |-> p.y + TDiv(p.vy, V)] :
            d \in AimDistances(p.layer)}
           \cup {[x |-> p.x + 1, y |-> p.y]} : p \in Probe}

\* ---------------------------------------------------------------- registry
\* addEventListener(type, handler, {signal: controller.signal})
Listener(owner, type) == [owner |-> owner, type |-> type]

HasListener(owner, type) == Listener(owner, type) \in listeners

WaveListeners ==
  {Listener("wave", "resize"), Listener("wave", "mousemove"), Listener("wave", "mouseleave")}

VoidListeners ==
  {Listener("void", "mousemove"), Listener("void", "mouseleave"),
   Listener("void", "touchmove"), Listener("void", "touchend"),
   Listener("void", "resize")}

\* cancelAnimationFrame(id)
cancelAnimationFrame(queue, id) == {r \in queue : r.id # id}

\* Wave Field abort listener: if (animationId) cancelAnimationFrame(animationId)
WaveAbortListener(queue) ==
  IF waveAnimationId # NoId THEN cancelAnimationFrame(queue, waveAnimationId) ELSE queue

\* An abort listener that cancels nothing
VoidAbortListenerIdle(queue) == queue

\* Particle Field abort listener
VoidAbortListener(queue) ==
  IF animationId # NoId THEN cancelAnimationFrame(queue, animationId) ELSE queue

\* Listeners registered without a signal: an abort revokes none
RevokeNone(cs) == listeners

\* The listeners left after the signals of the controllers in cs abort
RevokeListeners(cs) == {l \in listeners : l.owner \notin cs}

\* ---------------------------------------------------------------- theme
\* initThemeToggle's listeners: click on the toggle, change on the media query
ThemeListeners == {Listener("theme", "click"), Listener("theme", "change")}

\* The system preference, whatever is stored
getCurrentThemeSystem == IF systemLight THEN "light" ELSE "dark"

\* getCurrentTheme(): the stored preference, else the system preference
getCurrentTheme ==
  IF storedTheme # "none" THEN storedTheme
  ELSE IF systemLight THEN "light" ELSE "dark"

\* The theme the stylesheet applies: the data-theme attribute, else the
\* system preference
DisplayedTheme ==
  IF dataTheme # "none" THEN dataTheme
  ELSE IF systemLight THEN "light" ELSE "dark"

\* What updateThemeCache() reads from the computed style under a theme
\* (--canvas-fade, --wave-color); the dark values are the script's fallbacks.
updateThemeCache(theme) ==
  IF theme = "light"
  THEN [canvasFade |-> "rgba(250, 250, 250, 0.12)", waveColor |-> "0, 150, 90"]
  ELSE [canvasFade |-> "rgba(8, 8, 10, 0.12)", waveColor |-> "0, 255, 157"]

\* The page as initThemeToggle leaves it: localStorage and the system
\* preference as found, data-theme set from the stored preference or not at
\* all; with a toggle element the controller and the listeners are
\* registered and the cache is read from the computed style, without one the
\* function returns at once and the cache keeps its literal.
ThemeInit(toggle, stored, system) ==
  /\ storedTheme \in stored
  /\ systemLight \in system
  /\ dataTheme \in {"none", storedTheme}
  /\ abortControllers = IF toggle THEN {"theme"} ELSE {}
  /\ listeners = IF toggle THEN ThemeListeners ELSE {}
  /\ themeCache = IF toggle THEN updateThemeCache(DisplayedTheme)
                  ELSE updateThemeCache("dark")

\* requestAnimationFrame(updateThemeCache)
RequestThemeUpdate ==
  /\ rafQueue' = rafQueue \cup {[id |-> rafNext, cb |-> "updateThemeCache"]}
  /\ rafNext' = rafNext + 1

\* click on the toggle: setTheme(the opposite of the current theme)
ThemeClick ==
  /\ HasListener("theme", "click")
  /\ rafNext < MaxRequests
  /\ LET next == IF getCurrentTheme = "dark" THEN "light" ELSE "dark"
     IN /\ dataTheme' = next
        /\ storedTheme' = next
  /\ RequestThemeUpdate
  /\ UNCHANGED <<loaded, devicePixelRatio, canvasOk, pageVars, sampleVars, systemLight,
                 themeCache>>
  /\ UNCHANGED <<abortControllers, aborted, listeners, waveVars, voidVars>>

\* The system colour scheme changes; the change listener acts only when no
\* preference is stored.
SystemThemeChange ==
  /\ systemLight' = ~systemLight
  /\ IF HasListener("theme", "change") /\ storedTheme = "none"
     THEN /\ rafNext < MaxRequests
          /\ dataTheme' = "none"
          /\ RequestThemeUpdate
     ELSE UNCHANGED <<dataTheme, rafQueue, rafNext>>
  /\ UNCHANGED <<loaded, devicePixelRatio, canvasOk, pageVars, sampleVars, storedTheme,
                 themeCache>>
  /\ UNCHANGED <<abortControllers, aborted, listeners, waveVars, voidVars>>

\* The browser runs a pending updateThemeCache callback
ThemeFrame ==
  /\ \E r \in rafQueue :
       /\ r.cb = "updateThemeCache"
       /\ rafQueue' = rafQueue \ {r}
  /\ themeCache' = updateThemeCache(DisplayedTheme)
  /\ UNCHANGED <<loaded, devicePixelRatio, canvasOk, pageVars, sampleVars, dataTheme,
                 storedTheme, systemLight>>
  /\ UNCHANGED <<abortControllers, aborted, listeners, rafNext, waveVars, voidVars>>

\* ---------------------------------------------------------------- timers
\* A pending timer of the browser
Timer(id, kind, cb) == [id |-> id, kind |-> kind, cb |-> cb]

\* Only the timeouts are cleared, the intervals keep running
ClearTimeoutsOnly(pending, ids) ==
  {t \in pending : t.kind = "interval" \/ t.id \notin ids}

\* clearInterval(id) / clearTimeout(id) for every id of ids
ClearTimers(pending, ids) == {t \in pending : t.id \notin ids}

\* The wrapper without the delete
TimeoutWrapperKeeps(ids, id) == ids

\* The wrapper registerTimeout hands to setTimeout: it deletes its own id
\* from cleanupRegistry.timeouts, then runs the callback
TimeoutWrapper(ids, id) == ids \ {id}

\* initEndSection(): registerInterval(setInterval(glitch, 5000))
initEndSection ==
  /\ intervals' = intervals \cup {timerNext}
  /\ timers' = timers \cup {Timer(timerNext, "interval", "glitch")}
  /\ timerNext' = timerNext + 1

\* A registered timeout fires: the wrapper, then the callback.  The Konami
\* hide callback registers the removal timeout; the removal takes the
\* message away and calls onComplete; the glitch timeout ends the glitch.
TimeoutFire ==
  \E t \in timers :
    /\ t.kind = "timeout"
    /\ LET ids == TimeoutWrapper(timeouts, t.id)
       IN CASE t.cb = "konamiHide" ->
                 /\ timerNext <= MaxTimers
                 /\ messageVisible' = FALSE
                 /\ timeouts' = ids \cup {timerNext}
                 /\ timers' = (timers \ {t}) \cup {Timer(timerNext, "timeout", "konamiRemove")}
                 /\ timerNext' = timerNext + 1
                 /\ UNCHANGED <<messages, isAnimating, sigGlitching>>
            [] t.cb = "konamiRemove" ->
                 /\ messages' = messages - 1
                 /\ messageVisible' = FALSE
                 /\ isAnimating' = FALSE
                 /\ timeouts' = ids
                 /\ timers' = timers \ {t}
                 /\ UNCHANGED <<timerNext, sigGlitching>>
            [] t.cb = "glitchOff" ->
                 /\ sigGlitching' = FALSE
                 /\ timeouts' = ids
                 /\ timers' = timers \ {t}
                 /\ UNCHANGED <<timerNext, messages, messageVisible, isAnimating>>
    /\ UNCHANGED <<loaded, devicePixelRatio, canvasOk, themeVars, sampleVars, registryVars>>
    /\ UNCHANGED <<waveVars, voidVars, intervals, konamiIndex, recentKeys, scrollVars>>

\* The glitch interval ticks; lucky says whether Math.random() < 0.1
IntervalTick ==
  \E t \in timers, lucky \in BOOLEAN :
    /\ t.kind = "interval"
    /\ IF lucky
       THEN /\ timerNext <= MaxTimers
            /\ sigGlitching' = TRUE
            /\ timeouts' = timeouts \cup {timerNext}
            /\ timers' = timers \cup {Timer(timerNext, "timeout", "glitchOff")}
            /\ timerNext' = timerNext + 1
       ELSE UNCHANGED <<sigGlitching, timeouts, timers, timerNext>>
    /\ UNCHANGED <<loaded, devicePixelRatio, canvasOk, themeVars, sampleVars, registryVars>>
    /\ UNCHANGED <<waveVars, voidVars, intervals, konamiVars, scrollVars>>

\* ---------------------------------------------------------------- Konami code
KonamiSequence ==
  <<"ArrowUp", "ArrowUp", "ArrowDown", "ArrowDown", "ArrowLeft", "ArrowRight",
    "ArrowLeft", "ArrowRight", "KeyB", "KeyA">>

\* e.code of the keydown events
KeyCodes == {"ArrowUp", "ArrowDown", "ArrowLeft", "ArrowRight", "KeyB", "KeyA", "Escape"}

\* The longest suffix of keys that begins a Konami entry: what of the keys
\* heard so far the ten most recent can still share with the sequence
KonamiSuffix(keys) ==
  LET fits(k) == /\ Len(keys) - k + 1 <= Len(KonamiSequence)
                 /\ SubSeq(keys, k, Len(keys)) = SubSeq(KonamiSequence, 1, Len(keys) - k + 1)
      first == CHOOSE k \in 1 .. Len(keys) + 1 :
                 fits(k) /\ \A j \in 1 .. k - 1 : ~fits(j)
  IN SubSeq(keys, first, Len(keys))

\* The listeners of initScrollProgress and initKonamiCode
PageListeners == {Listener("scroll", "scroll"), Listener("konami", "keydown")}

\* triggerKonamiEasterEgg(onComplete) up to its return: the message is
\* appended, its fade-in requested, the hide timeout registered
triggerKonamiEasterEgg ==
  /\ messages' = messages + 1
  /\ rafQueue' = rafQueue \cup {[id |-> rafNext, cb |-> "konamiVisible"]}
  /\ rafNext' = rafNext + 1
  /\ timeouts' = timeouts \cup {timerNext}
  /\ timers' = timers \cup {Timer(timerNext, "timeout", "konamiHide")}
  /\ timerNext' = timerNext + 1

\* The keydown listener without its first line
KonamiKeydownAlways(codes) ==
  /\ HasListener("konami", "keydown")
  /\ \E key \in codes :
       /\ recentKeys' = IF isAnimating THEN recentKeys
                        ELSE KonamiSuffix(Append(recentKeys, key))
       /\ IF key = KonamiSequence[konamiIndex + 1]
          THEN IF konamiIndex + 1 = Len(KonamiSequence)
               THEN /\ timerNext <= MaxTimers
                    /\ konamiIndex' = 0
                    /\ isAnimating' = TRUE
                    /\ triggerKonamiEasterEgg
               ELSE /\ konamiIndex' = konamiIndex + 1
                    /\ UNCHANGED <<isAnimating, messages, rafQueue, rafNext, timeouts,
                                   timers, timerNext>>
          ELSE /\ konamiIndex' = IF key = KonamiSequence[1] THEN 1 ELSE 0
               /\ UNCHANGED <<isAnimating, messages, rafQueue, rafNext, timeouts, timers,
                              timerNext>>
  /\ UNCHANGED <<loaded, devicePixelRatio, canvasOk, themeVars, sampleVars>>
  /\ UNCHANGED <<abortControllers, aborted, listeners, waveVars, voidVars>>
  /\ UNCHANGED <<intervals, messageVisible, scrollVars, sigGlitching>>

\* The keydown listener of initKonamiCode
KonamiKeydown(codes) ==
  /\ HasListener("konami", "keydown")
  /\ \E key \in codes :
       IF isAnimating
       THEN UNCHANGED <<konamiIndex, isAnimating, messages, recentKeys, rafQueue, rafNext,
                        timeouts, timers, timerNext>>
       ELSE /\ recentKeys' = KonamiSuffix(Append(recentKeys, key))
            /\ IF key = KonamiSequence[konamiIndex + 1]
               THEN IF konamiIndex + 1 = Len(KonamiSequence)
                    THEN /\ timerNext <= MaxTimers
                         /\ konamiIndex' = 0
                         /\ isAnimating' = TRUE
                         /\ triggerKonamiEasterEgg
                    ELSE /\ konamiIndex' = konamiIndex + 1
                         /\ UNCHANGED <<isAnimating, messages, rafQueue, rafNext, timeouts,
                                        timers, timerNext>>
               ELSE /\ konamiIndex' = IF key = KonamiSequence[1] THEN 1 ELSE 0
                    /\ UNCHANGED <<isAnimating, messages, rafQueue, rafNext, timeouts,
                                   timers, timerNext>>
  /\ UNCHANGED <<loaded, devicePixelRatio, canvasOk, themeVars, sampleVars>>
  /\ UNCHANGED <<abortControllers, aborted, listeners, waveVars, voidVars>>
  /\ UNCHANGED <<intervals, messageVisible, scrollVars, sigGlitching>>

\* The browser runs the fade-in callback: message.classList.add("visible")
KonamiVisibleFrame ==
  /\ \E r \in rafQueue :
       /\ r.cb = "konamiVisible"
       /\ rafQueue' = rafQueue \ {r}
  /\ messageVisible' = TRUE
  /\ UNCHANGED <<loaded, devicePixelRatio, canvasOk, themeVars, sampleVars>>
  /\ UNCHANGED <<abortControllers, aborted, listeners, rafNext, waveVars, voidVars>>
  /\ UNCHANGED <<timerVars, konamiIndex, isAnimating, messages, recentKeys, scrollVars,
                 sigGlitching>>

\* ---------------------------------------------------------------- scroll progress
\* document.documentElement.scrollHeight - window.innerHeight
DocHeight == 200

\* the scroll positions the window takes
ScrollPositions == {0, 50, 100, 200}

\* A scroll listener that requests a frame on every event
ScrollEventUnthrottled ==
  /\ HasListener("scroll", "scroll")
  /\ rafNext < MaxRequests
  /\ \E y \in ScrollPositions : scrollY' = y
  /\ progressStale' = TRUE
  /\ rafQueue' = rafQueue \cup {[id |-> rafNext, cb |-> "updateProgress"]}
  /\ rafNext' = rafNext + 1
  /\ ticking' = TRUE
  /\ UNCHANGED <<loaded, devicePixelRatio, canvasOk, themeVars, sampleVars>>
  /\ UNCHANGED <<abortControllers, aborted, listeners, waveVars, voidVars>>
  /\ UNCHANGED <<timerVars, konamiVars, sigGlitching, progress>>

\* The window scrolls and the scroll listener runs
ScrollEvent ==
  /\ HasListener("scroll", "scroll")
  /\ \E y \in ScrollPositions : scrollY' = y
  /\ progressStale' = TRUE
  /\ IF ~ticking
     THEN /\ rafNext < MaxRequests
          /\ rafQueue' = rafQueue \cup {[id |-> rafNext, cb |-> "updateProgress"]}
          /\ rafNext' = rafNext + 1
          /\ ticking' = TRUE
     ELSE UNCHANGED <<rafQueue, rafNext, ticking>>
  /\ UNCHANGED <<loaded, devicePixelRatio, canvasOk, themeVars, sampleVars>>
  /\ UNCHANGED <<abortControllers, aborted, listeners, waveVars, voidVars>>
  /\ UNCHANGED <<timerVars, konamiVars, sigGlitching, progress>>

\* The browser runs a pending updateProgress callback
ProgressFrame ==
  /\ \E r \in rafQueue :
       /\ r.cb = "updateProgress"
       /\ rafQueue' = rafQueue \ {r}
  /\ progress' = IF DocHeight > 0 THEN (scrollY * 100) \div DocHeight ELSE 0
  /\ ticking' = FALSE
  /\ progressStale' = FALSE
  /\ UNCHANGED <<loaded, devicePixelRatio, canvasOk, themeVars, sampleVars>>
  /\ UNCHANGED <<abortControllers, aborted, listeners, rafNext, waveVars, voidVars>>
  /\ UNCHANGED <<timerVars, konamiVars, sigGlitching, scrollY>>

\* ---------------------------------------------------------------- initial state
\* The state when DOMContentLoaded has run its critical path and the
\* deferred initialisation is still to come (the theme toggle apart).
InitCore(ratios) ==
  /\ loaded = FALSE
  /\ devicePixelRatio \in ratios
  /\ canvasOk = [wave |-> FALSE, void |-> FALSE]
  /\ waveSample = NoPointer
  /\ voidSample = NoPointer
  /\ aborted = {}
  /\ rafQueue = {}
  /\ rafNext = 1
  /\ waveCanvas = [width |-> 0, height |-> 0]
  /\ targetMouse = NoPointer
  /\ waveMouse = NoPointer
  /\ waveTime = 0
  /\ waveAnimationId = NoId
  /\ isVisible = FALSE
  /\ animationStarted = FALSE
  /\ scrollTrigger = "none"
  /\ waveLog = << >>
  /\ width = 0
  /\ height = 0
  /\ particleLayers = << << >>, << >>, << >> >>
  /\ mouse = NoPointer
  /\ time = 0
  /\ animationId = NoId
  /\ voidLog = << >>
  /\ intervals = {}
  /\ timeouts = {}
  /\ timers = {}
  /\ timerNext = 1
  /\ konamiIndex = 0
  /\ isAnimating = FALSE
  /\ messages = 0
  /\ messageVisible = FALSE
  /\ recentKeys = << >>
  /\ sigGlitching = FALSE
  /\ ticking = FALSE
  /\ scrollY = 0
  /\ progress = 0
  /\ progressStale = FALSE

\* A page without theme toggle
InitWith(ratios) == InitCore(ratios) /\ ThemeInit(FALSE, {"none"}, {FALSE})

Init == InitWith({1, 2})

\* ---------------------------------------------------------------- page load
\* Wave Field resize(): the canvas in device pixels
WaveCanvasFor(rect) ==
  [width |-> rect[1] * devicePixelRatio, height |-> rect[2] * devicePixelRatio]

\* A canvas that is missing or has no 2D context is taken to be there
CanvasContextAssumed(ok) == TRUE

\* canvas && canvas instanceof HTMLCanvasElement && canvas.getContext("2d")
\* (and, for the Wave Field, canvas.parentElement): the early returns
CanvasContext(ok) == ok

\* The deferInit callback on a page with #scroll-progress and #end-sig:
\* initScrollProgress(); initWaveVisualization() then initVoidCanvas(), unless
\* prefers-reduced-motion; initEndSection(); initKonamiCode().  waveOk /
\* voidOk say whether the canvas and its 2D context exist.  initVoidCanvas
\* ends with resize() and animate().
DeferInit(reduced, waveOk, voidOk, rect, size, seed) ==
  LET doWave == ~reduced /\ CanvasContext(waveOk)
      doVoid == ~reduced /\ CanvasContext(voidOk)
      first == animate(initParticles(size[1], size[2], seed), NoPointer, 1, size[1], size[2])
  IN /\ ~loaded
     /\ loaded' = TRUE
     /\ canvasOk' = [wave |-> waveOk, void |-> voidOk]
     /\ abortControllers' = abortControllers \cup {"scroll", "konami"}
                                             \cup (IF doWave THEN {"wave"} ELSE {})
                                             \cup (IF doVoid THEN {"void"} ELSE {})
     /\ listeners' = listeners \cup PageListeners
                               \cup (IF doWave THEN WaveListeners ELSE {})
                               \cup (IF doVoid THEN VoidListeners ELSE {})
     /\ initEndSection
     /\ IF doWave
        THEN /\ waveCanvas' = WaveCanvasFor(rect)
             /\ scrollTrigger' = "armed"
        ELSE UNCHANGED <<waveCanvas, scrollTrigger>>
     /\ IF doVoid
        THEN /\ width' = size[1]
             /\ height' = size[2]
             /\ particleLayers' = first.layers
             /\ voidLog' = first.log
             /\ time' = 1
             /\ animationId' = rafNext
             /\ rafQueue' = rafQueue \cup {[id |-> rafNext, cb |-> "animate"]}
             /\ rafNext' = rafNext + 1
        ELSE UNCHANGED <<width, height, particleLayers, voidLog, time, animationId,
                         rafQueue, rafNext>>
     /\ UNCHANGED <<konamiVars, scrollVars, sigGlitching, timeouts>>
     /\ UNCHANGED <<devicePixelRatio, themeVars, sampleVars, aborted, targetMouse,
                    waveMouse, waveTime, waveAnimationId, isVisible, animationStarted,
                    waveLog, mouse>>

\* pages: the <<reduced, waveOk, voidOk>> the page may present
PageInit(pages, rects, sizes, seeds) ==
  \E page \in pages, rect \in rects, size \in sizes, seed \in seeds :
    DeferInit(page[1], page[2], page[3], rect, size, seed)

\* ---------------------------------------------------------------- teardown
\* cleanupAll() on beforeunload: clear every registered interval and
\* timeout and empty the two sets, then abort every registered controller
\* (each abort revokes the listeners bound to its signal and runs its abort
\* listener) and clear the set.
cleanupAll ==
  LET cs == abortControllers \ aborted
      q1 == IF "wave" \in cs THEN WaveAbortListener(rafQueue) ELSE rafQueue
      q2 == IF "void" \in cs THEN VoidAbortListener(q1) ELSE q1
  IN /\ timers' = ClearTimers(timers, intervals \cup timeouts)
     /\ intervals' = {}
     /\ timeouts' = {}
     /\ listeners' = RevokeListeners(cs)
     /\ rafQueue' = q2
     /\ aborted' = aborted \cup abortControllers
     /\ abortControllers' = {}
     /\ UNCHANGED <<loaded, devicePixelRatio, canvasOk, themeVars, sampleVars>>
     /\ UNCHANGED <<timerNext, konamiVars, scrollVars, sigGlitching>>
     /\ UNCHANGED <<rafNext, waveVars, voidVars>>

\* ---------------------------------------------------------------- Particle Field events
\* resize() that also calls animate(), starting another loop
VoidResizeRestarts(size, seed) ==
  /\ HasListener("void", "resize")
  /\ width' = size[1]
  /\ height' = size[2]
  /\ particleLayers' = initParticles(size[1], size[2], seed)
  /\ animationId' = rafNext
  /\ rafQueue' = rafQueue \cup {[id |-> rafNext, cb |-> "animate"]}
  /\ rafNext' = rafNext + 1
  /\ UNCHANGED <<loaded, devicePixelRatio, canvasOk, pageVars, themeVars, sampleVars>>
  /\ UNCHANGED <<abortControllers, aborted, listeners, waveVars, mouse, time, voidLog>>

\* resize(): width, height from the window, then initParticles()
VoidResize(size, seed) ==
  /\ HasListener("void", "resize")
  /\ width' = size[1]
  /\ height' = size[2]
  /\ particleLayers' = initParticles(size[1], size[2], seed)
  /\ UNCHANGED <<loaded, devicePixelRatio, canvasOk, pageVars, themeVars, sampleVars>>
  /\ UNCHANGED <<registryVars, waveVars, mouse, time,
                 animationId, voidLog>>

VoidResizeEvent(sizes, seeds) == \E size \in sizes, seed \in seeds : VoidResize(size, seed)

VoidMouseMove ==
  /\ HasListener("void", "mousemove")
  /\ \E e \in MouseSamples : mouse' = Pointer(e.x, e.y) /\ voidSample' = Pointer(e.x, e.y)
  /\ UNCHANGED <<loaded, devicePixelRatio, canvasOk, pageVars, themeVars, waveSample>>
  /\ UNCHANGED <<registryVars, waveVars, width, height,
                 particleLayers, time, animationId, voidLog>>

VoidMouseLeave ==
  /\ HasListener("void", "mouseleave")
  /\ mouse' = NoPointer
  /\ voidSample' = NoPointer
  /\ UNCHANGED <<loaded, devicePixelRatio, canvasOk, pageVars, themeVars, waveSample>>
  /\ UNCHANGED <<registryVars, waveVars, width, height,
                 particleLayers, time, animationId, voidLog>>

\* touchmove: touches is e.touches
VoidTouchMove(samples) ==
  /\ HasListener("void", "touchmove")
  /\ \E touches \in {<< >>} \cup {<<t>> : t \in samples} :
       /\ mouse' = IF Len(touches) > 0 THEN Pointer(touches[1].x, touches[1].y)
                   ELSE mouse
       /\ voidSample' = IF Len(touches) > 0 THEN Pointer(touches[1].x, touches[1].y)
                        ELSE voidSample
  /\ UNCHANGED <<loaded, devicePixelRatio, canvasOk, pageVars, themeVars, waveSample>>
  /\ UNCHANGED <<registryVars, waveVars, width, height,
                 particleLayers, time, animationId, voidLog>>

VoidTouchEnd ==
  /\ HasListener("void", "touchend")
  /\ mouse' = NoPointer
  /\ voidSample' = NoPointer
  /\ UNCHANGED <<loaded, devicePixelRatio, canvasOk, pageVars, themeVars, waveSample>>
  /\ UNCHANGED <<registryVars, waveVars, width, height,
                 particleLayers, time, animationId, voidLog>>

\* The browser runs a pending animate() callback
VoidFrame ==
  /\ time < MaxFrames
  /\ \E r \in rafQueue :
       /\ r.cb = "animate"
       /\ LET frame == animate(particleLayers, mouse, time + 1, width, height)
          IN /\ time' = time + 1
             /\ particleLayers' = frame.layers
             /\ voidLog' = frame.log
             /\ animationId' = rafNext
             /\ rafQueue' = (rafQueue \ {r}) \cup {[id |-> rafNext, cb |-> "animate"]}
             /\ rafNext' = rafNext + 1
  /\ UNCHANGED <<loaded, devicePixelRatio, canvasOk, pageVars, themeVars, sampleVars>>
  /\ UNCHANGED <<abortControllers, aborted, listeners,
                 waveVars, width, height, mouse>>

\* ---------------------------------------------------------------- Wave Field events
WaveResize(rects) ==
  /\ HasListener("wave", "resize")
  /\ \E rect \in rects : waveCanvas' = WaveCanvasFor(rect)
  /\ UNCHANGED <<loaded, devicePixelRatio, canvasOk, pageVars, themeVars, sampleVars>>
  /\ UNCHANGED <<registryVars, voidVars, targetMouse,
                 waveMouse, waveTime, waveAnimationId, isVisible, animationStarted,
                 scrollTrigger, waveLog>>

WaveMouseMove(samples) ==
  /\ HasListener("wave", "mousemove")
  /\ \E e \in samples : targetMouse' = Pointer(e.x, e.y) /\ waveSample' = Pointer(e.x, e.y)
  /\ UNCHANGED <<loaded, devicePixelRatio, canvasOk, pageVars, themeVars, voidSample>>
  /\ UNCHANGED <<registryVars, voidVars, waveCanvas,
                 waveMouse, waveTime, waveAnimationId, isVisible, animationStarted,
                 scrollTrigger, waveLog>>

\* A mouseleave handler that also resets the theme cache
WaveMouseLeaveResets ==
  /\ HasListener("wave", "mouseleave")
  /\ targetMouse' = NoPointer
  /\ waveSample' = NoPointer
  /\ themeCache' = updateThemeCache("dark")
  /\ UNCHANGED <<loaded, devicePixelRatio, canvasOk, pageVars, dataTheme, storedTheme,
                 systemLight, voidSample>>
  /\ UNCHANGED <<registryVars, voidVars, waveCanvas, waveMouse, waveTime, waveAnimationId,
                 isVisible, animationStarted, scrollTrigger, waveLog>>

WaveMouseLeave ==
  /\ HasListener("wave", "mouseleave")
  /\ targetMouse' = NoPointer
  /\ waveSample' = NoPointer
  /\ UNCHANGED <<loaded, devicePixelRatio, canvasOk, pageVars, themeVars, voidSample>>
  /\ UNCHANGED <<registryVars, voidVars, waveCanvas,
                 waveMouse, waveTime, waveAnimationId, isVisible, animationStarted,
                 scrollTrigger, waveLog>>

\* touchmove on the Wave Field container: initWaveVisualization registers no
\* listener for it, the event changes nothing of the program
WaveTouchMove(samples) ==
  /\ "wave" \in abortControllers
  /\ \E t \in samples : waveSample' = Pointer(t.x, t.y)
  /\ UNCHANGED <<loaded, devicePixelRatio, canvasOk, pageVars, themeVars, voidSample>>
  /\ UNCHANGED <<registryVars, voidVars, waveVars>>

\* touchend on the Wave Field container: no listener either
WaveTouchEnd ==
  /\ "wave" \in abortControllers
  /\ waveSample' = NoPointer
  /\ UNCHANGED <<loaded, devicePixelRatio, canvasOk, pageVars, themeVars, voidSample>>
  /\ UNCHANGED <<registryVars, voidVars, waveVars>>

\* draw(): one Wave Field frame, ending with time += 1 and the next request;
\* queue is what is pending while it runs
draw(queue) ==
  LET w == waveCanvas.width \div devicePixelRatio
      h == waveCanvas.height \div devicePixelRatio
      m == SmoothMouse(waveMouse, targetMouse)
  IN /\ waveMouse' = m
     /\ waveLog' = WaveStrokes(waveTime, m, w, h)
     /\ waveTime' = waveTime + 1
     /\ waveAnimationId' = rafNext
     /\ rafQueue' = queue \cup {[id |-> rafNext, cb |-> "draw"]}
     /\ rafNext' = rafNext + 1

\* ScrollTrigger onEnter (once: true)
WaveEnter ==
  /\ scrollTrigger = "armed"
  /\ scrollTrigger' = "fired"
  /\ isVisible' = TRUE
  /\ IF ~animationStarted
     THEN /\ animationStarted' = TRUE
          /\ draw(rafQueue)
     ELSE UNCHANGED <<animationStarted, waveMouse, waveLog, waveTime, waveAnimationId,
                      rafQueue, rafNext>>
  /\ UNCHANGED <<loaded, devicePixelRatio, canvasOk, pageVars, themeVars, sampleVars>>
  /\ UNCHANGED <<abortControllers, aborted, listeners,
                 voidVars, waveCanvas, targetMouse>>

\* The browser runs a pending draw() callback
WaveFrame ==
  /\ waveTime < MaxFrames
  /\ \E r \in rafQueue : r.cb = "draw" /\ draw(rafQueue \ {r})
  /\ UNCHANGED <<loaded, devicePixelRatio, canvasOk, pageVars, themeVars, sampleVars>>
  /\ UNCHANGED <<abortControllers, aborted, listeners,
                 voidVars, waveCanvas, targetMouse, isVisible, animationStarted,
                 scrollTrigger>>

\* ---------------------------------------------------------------- specification
\* Both subsystems on one page
Next ==
  \/ PageInit(Pages, CoreRects, CoreSizes, {0})
  \/ cleanupAll
  \/ VoidResizeEvent(CoreSizes, {0})
  \/ VoidMouseMove
  \/ VoidMouseLeave
  \/ VoidTouchMove(MouseSamples)
  \/ VoidTouchEnd
  \/ VoidFrame
  \/ WaveResize(CoreRects)
  \/ WaveMouseMove({[x |-> 50 * WU, y |-> 10 * WU]})
  \/ WaveMouseLeave
  \/ WaveEnter
  \/ WaveFrame

Spec == Init /\ [][Next]_vars

\* The Particle Field alone (no wave canvas on the page)
NextVoid ==
  \/ PageInit({<<FALSE, FALSE, TRUE>>}, CoreRects, ViewportSizes, Seeds)
  \/ cleanupAll
  \/ VoidResizeEvent(ViewportSizes, Seeds)
  \/ VoidMouseMove
  \/ VoidMouseLeave
  \/ VoidTouchMove(TouchSamples)
  \/ VoidTouchEnd
  \/ VoidFrame

SpecVoid == InitWith({1}) /\ [][NextVoid]_vars

\* The Particle Field's population over many viewport sizes
NextCount ==
  \/ PageInit({<<FALSE, FALSE, TRUE>>}, CoreRects, CountSizes, Seeds)
  \/ cleanupAll
  \/ VoidResizeEvent(CountSizes, Seeds)
  \/ VoidMouseMove
  \/ VoidMouseLeave

SpecCount == InitWith({1}) /\ [][NextCount]_vars

\* The Wave Field alone (no void canvas on the page)
NextWave ==
  \/ PageInit({<<FALSE, TRUE, FALSE>>}, WaveRects, CoreSizes, {0})
  \/ cleanupAll
  \/ WaveResize(WaveRects)
  \/ WaveMouseMove(WavePointerSamples)
  \/ WaveMouseLeave
  \/ WaveTouchMove(WavePointerSamples)
  \/ WaveTouchEnd
  \/ WaveEnter
  \/ WaveFrame

SpecWave == Init /\ [][NextWave]_vars

\* Both subsystems and the theme toggle, on the smallest page
NextTheme ==
  \/ PageInit({<<FALSE, TRUE, TRUE>>}, ThemeRects, ThemeSizes, {0})
  \/ cleanupAll
  \/ ThemeClick
  \/ ThemeFrame
  \/ VoidResizeEvent(ThemeSizes, {0})
  \/ VoidMouseMove
  \/ VoidMouseLeave
  \/ VoidFrame
  \/ WaveResize(ThemeRects)
  \/ WaveMouseMove({[x |-> 2 * WU, y |-> 1 * WU]})
  \/ WaveMouseLeave
  \/ WaveEnter
  \/ WaveFrame

SpecTheme ==
  /\ InitCore({1})
  /\ ThemeInit(TRUE, {"none"}, {FALSE})
  /\ [][NextTheme]_vars

\* The page without canvases (prefers-reduced-motion): the registry's timers
\* and the Konami detector
NextPage ==
  \/ PageInit({<<TRUE, FALSE, FALSE>>}, ThemeRects, ThemeSizes, {0})
  \/ cleanupAll
  \/ KonamiKeydown(KeyCodes)
  \/ KonamiVisibleFrame
  \/ TimeoutFire
  \/ IntervalTick

SpecPage == InitWith({1}) /\ [][NextPage]_vars

\* The scroll-progress bar among the page's timers.  The browser runs every
\* pending animation-frame callback at the next frame, hence the fairness.
NextScroll ==
  \/ PageInit({<<TRUE, FALSE, FALSE>>}, ThemeRects, ThemeSizes, {0})
  \/ cleanupAll
  \/ ScrollEvent
  \/ ProgressFrame
  \/ IntervalTick
  \/ TimeoutFire

SpecScroll == InitWith({1}) /\ [][NextScroll]_vars /\ WF_vars(ProgressFrame)

\* The theme toggle alone, from every stored and system preference
NextToggle ==
  \/ PageInit({<<TRUE, FALSE, FALSE>>}, ThemeRects, ThemeSizes, {0})
  \/ cleanupAll
  \/ ThemeClick
  \/ SystemThemeChange
  \/ ThemeFrame

SpecToggle ==
  InitCore({1}) /\ ThemeInit(TRUE, {"none", "light", "dark"}, BOOLEAN) /\ [][NextToggle]_vars

\* The visibility notifications a subsystem has received: only the Wave
\* Field creates a ScrollTrigger, and its onEnter sets isVisible.
VisibilityNotified(owner) == owner = "wave" /\ isVisible

\* ---------------------------------------------------------------- properties
AllParticles ==
  {particleLayers[l][i] : <<l, i>> \in
     {li \in (1 .. 3) \X (1 .. 80) : li[2] <= Len(particleLayers[li[1]])}}

\* C1 as stated: after any number of update steps every particle lies in the
\* half-open canvas box, 0 <= x < width and 0 <= y < height.
C1_HalfOpenBounds ==
  \A p \in AllParticles :
    /\ 0 <= p.x /\ p.x < width * U
    /\ 0 <= p.y /\ p.y < height * U

\* C1 amended: every particle lies in the closed canvas box, 0 <= x <= width
\* and 0 <= y <= height (a particle leaving by the left or top edge is put
\* exactly on width or height).
C1_ClosedBounds ==
  \A p \in AllParticles :
    /\ 0 <= p.x /\ p.x <= width * U
    /\ 0 <= p.y /\ p.y <= height * U

\* A particle has wrapped from the left edge to x = width and another (or the
\* same) from the bottom edge to y = 0.
C1_Witness ==
  /\ time >= 1
  /\ \E p \in AllParticles : p.x = width * U /\ p.vx < 0
  /\ \E p \in AllParticles : p.y = 0 /\ p.vy > 0

\* C2 as stated: once a subsystem's controller is aborted, none of its frames
\* is scheduled (and so none runs).
C2_NoFrameScheduledAfterAbort ==
  \A r \in rafQueue :
    /\ r.cb = "draw" => "wave" \notin aborted
    /\ r.cb = "animate" => "void" \notin aborted

\* C3: once the Particle Field's controller is aborted no animate callback is
\* pending, whatever ran before; in particular right after activation.
C3_NoAnimateAfterAbort ==
  "void" \in aborted => \A r \in rafQueue : r.cb # "animate"

\* The Particle Field was activated (the first animate ran and requested the
\* second) and then aborted before any requested frame ran.
C3_Witness ==
  /\ "void" \in aborted
  /\ time = 1
  /\ animationId # NoId
  /\ rafQueue = {}

PopulationShape(layers) == [l \in 1 .. 3 |-> [i \in 1 .. Len(layers[l]) |-> layers[l][i].layer]]

\* C4: after a controller is aborted no step changes what its listeners
\* write: the Wave Field's raw pointer and canvas size, the Particle Field's
\* pointer, canvas size and population.
C4_ListenersRevoked ==
  [][/\ "wave" \in aborted => targetMouse' = targetMouse /\ waveCanvas' = waveCanvas
     /\ "void" \in aborted =>
          /\ mouse' = mouse
          /\ width' = width /\ height' = height
          /\ particleLayers' = particleLayers]_vars

\* Both subsystems ran, received pointer input, and were torn down.
C4_Witness ==
  /\ {"wave", "void"} \subseteq aborted
  /\ abortControllers = {}
  /\ listeners = {}
  /\ mouse.present
  /\ targetMouse.present

\* C5: after every initialisation or resize layer L holds
\* floor(B * (1 - 0.3 L)) particles, B = min(80, floor(w h / 25000)); never
\* more than 80; 800 x 600 gives 19, 13, 7.
C5_LayerCounts ==
  LET area == width * height
      B == IF area \div 25000 < 80 THEN area \div 25000 ELSE 80
  IN /\ Len(particleLayers[1]) = B
     /\ Len(particleLayers[2]) = (B * 7) \div 10
     /\ Len(particleLayers[3]) = (B * 4) \div 10
     /\ \A l \in 1 .. 3 : Len(particleLayers[l]) <= 80
     /\ (width = 800 /\ height = 600) =>
          <<Len(particleLayers[1]), Len(particleLayers[2]), Len(particleLayers[3])>>
            = <<19, 13, 7>>

\* The 800 x 600 population, and a later one at the cap
C5_Witness ==
  /\ width = 800 /\ height = 600
  /\ Len(particleLayers[1]) = 19 /\ Len(particleLayers[3]) = 7
  /\ time = 1

\* The step is a resize event (which leaves the frame counter and the
\* pointer alone)
IsResizeEvent ==
  time' = time /\ mouse' = mouse /\ aborted' = aborted
    /\ VoidResizeEvent(ViewportSizes, Seeds)

IsResizeStep == (~loaded /\ loaded') \/ IsResizeEvent

\* C6: a step that is no resize (and no initialisation) keeps every
\* particle's layer and every layer's size; a resize leaves only fresh
\* particles; and every particle's layer is the index of the layer holding it.
C6_PopulationFixed ==
  [][/\ ~IsResizeStep => PopulationShape(particleLayers') = PopulationShape(particleLayers)
     /\ IsResizeEvent =>
          \A l \in 1 .. 3 : \A i \in 1 .. Len(particleLayers'[l]) :
            /\ particleLayers'[l][i].fillColor = << >>
            /\ particleLayers'[l][i].size = particleLayers'[l][i].baseSize
     /\ \A l \in 1 .. 3 : \A i \in 1 .. Len(particleLayers'[l]) :
          particleLayers'[l][i].layer = l - 1]_vars

\* A population regenerated by a resize after two frames, all three layers
\* non-empty
C6_Witness ==
  /\ time = 2
  /\ Len(particleLayers[3]) > 0
  /\ \A p \in AllParticles : p.fillColor = << >>

\* C7: a frame that finds the pointer absent only damps each velocity
\* component by 0.99: no sign change, no growth in magnitude.
C7_DampingOnly ==
  [][(loaded /\ time' = time + 1 /\ ~mouse.present) =>
       \A l \in 1 .. 3 : \A i \in 1 .. Len(particleLayers[l]) :
         LET p == particleLayers[l][i]
             q == particleLayers'[l][i]
         IN /\ Sign(q.vx) = Sign(p.vx) \/ q.vx = 0
            /\ Sign(q.vy) = Sign(p.vy) \/ q.vy = 0
            /\ Abs(q.vx) <= Abs(p.vx) /\ Abs(q.vy) <= Abs(p.vy)
            /\ Abs(100 * q.vx - 99 * p.vx) < 100
            /\ Abs(100 * q.vy - 99 * p.vy) < 100]_vars

\* Two frames have run, the pointer is absent, and particles drift both ways
C7_Witness ==
  /\ time = 2
  /\ ~mouse.present
  /\ \E p \in AllParticles : p.vx < 0 /\ p.vx > -49500
  /\ \E p \in AllParticles : p.vy > 0

NoPointerUpdate(p) == ParticleUpdate(p, NoPointer, time + 1, width, height)

\* C8 as stated: with the pointer directly east of the particle (same y,
\* larger x, distance below the repel radius) one update leaves vx strictly
\* below, and vy equal to, the result of the same update without pointer.
C8_EastOfParticle ==
  [][(loaded /\ time' = time + 1 /\ mouse.present) =>
       \A l \in 1 .. 3 : \A i \in 1 .. Len(particleLayers[l]) :
         LET p == particleLayers[l][i]
             q == particleLayers'[l][i]
             d == mouse.x - p.x
         IN (mouse.y = p.y /\ d > 0 /\ d < RepelRadius(p.layer)) =>
              /\ q.vx < NoPointerUpdate(p).vx
              /\ q.vy = NoPointerUpdate(p).vy]_vars

\* C8 amended: the same, with the pointer directly east of the position the
\* update has just moved the particle to (x + vx, y + vy), at a distance d
\* with 0 < d < repelRadius(layer).
C8_EastAfterMove ==
  [][(loaded /\ time' = time + 1 /\ mouse.present) =>
       \A l \in 1 .. 3 : \A i \in 1 .. Len(particleLayers[l]) :
         LET p == particleLayers[l][i]
             q == particleLayers'[l][i]
             d == mouse.x - (p.x + TDiv(p.vx, V))
         IN (mouse.y = p.y + TDiv(p.vy, V) /\ d > 0 /\ d < RepelRadius(p.layer)) =>
              /\ q.vx < NoPointerUpdate(p).vx
              /\ q.vy = NoPointerUpdate(p).vy]_vars

\* A frame has run with the pointer 50 px east of where a back-layer
\* particle was moved to
C8_Witness ==
  /\ time >= 2
  /\ mouse.present
  /\ \E p \in AllParticles :
       p.layer = 2 /\ mouse.y = p.y /\ mouse.x - p.x = 50 * U

\* C9: with the displayed pointer at horizontal distance D from a sample, the
\* amplitude exceeds the base amplitude 20 + 10 layer by (1 - D / 150) * 25
\* when D < 150 and by nothing when D >= 150; never by more than 25.
C9_AmplitudeBoost ==
  waveMouse.present =>
    \A l \in 1 .. Len(waveLog) : \A k \in 1 .. Len(waveLog[l].path) :
      LET s == waveLog[l].path[k]
          base == (20 + 10 * waveLog[l].layer) * AmpScale
          D == Abs(s.x * WU - waveMouse.x)
      IN /\ D < 150 * WU =>
              /\ s.amplitude > base
              /\ (s.amplitude - base) * 150 * WU = (150 * WU - D) * 25 * AmpScale
         /\ D >= 150 * WU => s.amplitude = base
         /\ s.amplitude - base <= 25 * AmpScale

\* A frame drawn with the displayed pointer at x = 50: the sample on it gets
\* the full 25, the sample at x = 200 (D = 150) none, x = 100 a third
C9_Witness ==
  /\ waveMouse.present /\ waveMouse.x = 50 * WU
  /\ Len(waveLog) = 3
  /\ waveLog[1].path[26].amplitude = 45 * AmpScale
  /\ waveLog[1].path[101].amplitude = 20 * AmpScale
  /\ waveLog[3].path[100].amplitude > 40 * AmpScale

\* C10: the first frame (time 0) without pointer traces, for each layer and
\* x = 0, 2, 4, ... <= w, y = h/2 + amp sin(freq x) + 0.5 amp sin(2 freq x);
\* all three layers read time 0, which then becomes 1.
C10_FirstFrameClosedForm ==
  [][(waveTime = 0 /\ waveTime' # waveTime /\ ~targetMouse.present) =>
       LET w == waveCanvas.width \div devicePixelRatio
           h == waveCanvas.height \div devicePixelRatio
       IN /\ waveTime' = 1
          /\ Len(waveLog') = 3
          /\ \A l \in 1 .. 3 :
               LET amp == (20 + 10 * (l - 1)) * AmpScale
                   freq == 20 - 5 * (l - 1)
               IN /\ waveLog'[l].layer = l - 1
                  /\ waveLog'[l].time = 0
                  /\ Len(waveLog'[l].path) = (w \div 2) + 1
                  /\ \A k \in 1 .. Len(waveLog'[l].path) :
                       LET x == 2 * (k - 1)
                       IN /\ waveLog'[l].path[k].x = x
                          /\ waveLog'[l].path[k].y =
                               (h * YScale) \div 2 + 2 * amp * Sin(freq * x)
                                 + amp * Sin(2 * freq * x)]_vars

\* The first frame has been drawn without pointer
C10_Witness ==
  /\ waveTime = 1
  /\ ~waveMouse.present
  /\ Len(waveLog) = 3
  /\ Len(waveLog[1].path) = 161

LayerSizes(layers) == <<Len(layers[1]), Len(layers[2]), Len(layers[3])>>

\* C11: a resize that finds the viewport as the previous resize (or the
\* initialisation) left it yields the same per-layer counts as before,
\* whatever frames and resizes came earlier; the population itself is fresh.
C11_ResizeIdempotent ==
  [][(width' = width /\ height' = height /\ IsResizeEvent) =>
       /\ LayerSizes(particleLayers') = LayerSizes(particleLayers)
       /\ \A l \in 1 .. 3 : \A i \in 1 .. Len(particleLayers'[l]) :
            particleLayers'[l][i].fillColor = << >>]_vars

\* Two frames ran on a 250 x 300 viewport and a resize to the same size has
\* regenerated the population: the counts are those the last frame painted.
C11_Witness ==
  /\ time = 2
  /\ voidLog[1].w = width /\ voidLog[1].h = height
  /\ width = 250
  /\ \A p \in AllParticles : p.fillColor = << >>
  /\ \A l \in 1 .. 3 :
       Len(particleLayers[l]) =
         Cardinality({k \in 1 .. Len(voidLog) :
                        voidLog[k].op = "update" /\ voidLog[k].layer = l - 1})

\* C12: a frame paints the fade rectangle first, then updates and draws each
\* particle of layer 2, then of layer 1, then of layer 0 (each particle
\* updated, then drawn), then the connection lines, and requests the next
\* frame last.
C12_FrameOrder ==
  voidLog # << >> =>
    LET n == Len(voidLog)
        Rank(e) == CASE e.op = "fillRect" -> 0
                     [] e.op \in {"update", "draw"} -> 3 - e.layer
                     [] e.op = "line" -> 4
                     [] e.op = "requestAnimationFrame" -> 5
    IN /\ voidLog[1].op = "fillRect"
       /\ voidLog[n].op = "requestAnimationFrame"
       /\ \A k \in 1 .. n - 1 : Rank(voidLog[k]) <= Rank(voidLog[k + 1])
       /\ \A k \in 2 .. n : voidLog[k].op # "fillRect"
       /\ \A k \in 1 .. n - 1 : voidLog[k].op # "requestAnimationFrame"
       /\ \A k \in 1 .. n :
            voidLog[k].op = "update" =>
              /\ voidLog[k + 1].op = "draw"
              /\ voidLog[k + 1].layer = voidLog[k].layer
              /\ voidLog[k + 1].index = voidLog[k].index
       /\ \A k \in 2 .. n :
            voidLog[k].op = "draw" => voidLog[k - 1].op = "update"

\* The second frame of a population with all three layers and a connection
C12_Witness ==
  /\ time = 2
  /\ \E k \in 1 .. Len(voidLog) : voidLog[k].op = "update" /\ voidLog[k].layer = 2
  /\ \E k \in 1 .. Len(voidLog) : voidLog[k].op = "draw" /\ voidLog[k].layer = 1
  /\ \E k \in 1 .. Len(voidLog) : voidLog[k].op = "line"

\* C13 as stated: a subsystem has run a frame only after its visibility
\* notification has fired.
C13_NoFrameBeforeVisible ==
  /\ waveTime > 0 => VisibilityNotified("wave")
  /\ time > 0 => VisibilityNotified("void")

\* C14: at most one draw callback and at most one animate callback is
\* pending at any time.
C14_OnePendingFrame ==
  \A cb \in {"draw", "animate"} : Cardinality({r \in rafQueue : r.cb = cb}) <= 1

\* Both loops are running, the visibility notification has fired, and a
\* resize and a pointer event have arrived after the second frame.
C14_Witness ==
  /\ time = 2 /\ waveTime = 2
  /\ scrollTrigger = "fired"
  /\ {r.cb : r \in rafQueue} = {"draw", "animate"}
  /\ mouse.present
  /\ height # voidLog[1].h
  /\ \A p \in AllParticles : p.fillColor = << >>

\* C15: when the canvas or its context was not there at initialisation, the
\* subsystem has no controller (registered or aborted), no listener, no
\* pending frame and has run none, whatever events followed.
C15_MissingCanvasNoOp ==
  loaded =>
    /\ ~canvasOk.wave =>
         /\ "wave" \notin abortControllers \cup aborted
         /\ \A l \in listeners : l.owner # "wave"
         /\ \A r \in rafQueue : r.cb # "draw"
         /\ waveTime = 0 /\ waveAnimationId = NoId /\ waveLog = << >>
         /\ scrollTrigger = "none"
    /\ ~canvasOk.void =>
         /\ "void" \notin abortControllers \cup aborted
         /\ \A l \in listeners : l.owner # "void"
         /\ \A r \in rafQueue : r.cb # "animate"
         /\ time = 0 /\ animationId = NoId /\ voidLog = << >>
         /\ particleLayers = << << >>, << >>, << >> >>

\* A page without usable wave canvas on which the Particle Field ran two
\* frames, got pointer input and was torn down
C15_Witness ==
  /\ loaded
  /\ ~canvasOk.wave /\ canvasOk.void
  /\ time = 2
  /\ mouse.present
  /\ "void" \in aborted

\* C16 as stated: while a subsystem is live its stored pointer is the most
\* recent pointer-move or touch-move sample dispatched to it since the last
\* pointer-leave or touch-end, and absent if there is none.
C16_PointerIsLastSample ==
  /\ "wave" \in abortControllers => targetMouse = waveSample
  /\ "void" \in abortControllers => mouse = voidSample

\* C17: themeCache changes only when a pending updateThemeCache callback
\* runs; no frame, resize or pointer step of either subsystem changes it.
C17_ThemeCacheReadOnly ==
  [][/\ themeCache' # themeCache => ThemeFrame
     /\ (\/ time' # time \/ waveTime' # waveTime
         \/ width' # width \/ height' # height \/ particleLayers' # particleLayers
         \/ waveCanvas' # waveCanvas
         \/ mouse' # mouse \/ targetMouse' # targetMouse \/ waveMouse' # waveMouse)
          => themeCache' = themeCache]_vars

\* The toggle was clicked, the cache was refreshed, and both subsystems have
\* painted a frame with the new values.
C17_Witness ==
  /\ themeCache # updateThemeCache("dark")
  /\ time = 2
  /\ voidLog[1].fillStyle = themeCache.canvasFade
  /\ waveTime >= 1
  /\ waveLog[1].strokeStyle = themeCache.waveColor

\* C18: in every Wave Field frame the displayed pointer becomes absent when
\* the raw pointer is absent, the raw sample when it was absent itself, and
\* otherwise old + (raw - old) * 0.1 per coordinate, between old and raw.
C18_PointerSmoothing ==
  [][waveTime' = waveTime + 1 =>
       /\ ~targetMouse.present => waveMouse' = NoPointer
       /\ (targetMouse.present /\ ~waveMouse.present) => waveMouse' = targetMouse
       /\ (targetMouse.present /\ waveMouse.present) =>
            /\ waveMouse'.present
            /\ Abs(10 * (waveMouse'.x - waveMouse.x) - (targetMouse.x - waveMouse.x)) < 10
            /\ Abs(10 * (waveMouse'.y - waveMouse.y) - (targetMouse.y - waveMouse.y)) < 10
            /\ (waveMouse'.x - waveMouse.x) * (targetMouse.x - waveMouse'.x) >= 0
            /\ (waveMouse'.y - waveMouse.y) * (targetMouse.y - waveMouse'.y) >= 0
       /\ waveMouse'.present <=> targetMouse.present]_vars

\* The displayed pointer one tenth of the way from (50, 10) to (200, 60)
C18_Witness ==
  /\ waveTime = 2
  /\ waveMouse = Pointer(65 * WU, 15 * WU)
  /\ targetMouse = Pointer(200 * WU, 60 * WU)

\* C19: a frame strokes one line for every pair i < j of front-layer
\* particles closer than 100, between the two particles, with opacity
\* (1 - dist / 100) * 0.1, and no other line.
C19_ConnectionLines ==
  [][time' = time + 1 =>
       LET front == particleLayers'[1]
           lines == {k \in 1 .. Len(voidLog') : voidLog'[k].op = "line"}
           dx(i, j) == front[i].x - front[j].x
           dy(i, j) == front[i].y - front[j].y
           Near(i, j) == /\ Abs(dx(i, j)) < 100 * U
                         /\ Abs(dy(i, j)) < 100 * U
                         /\ Dist(dx(i, j), dy(i, j)) < 100 * U
       IN /\ \A i \in 1 .. Len(front) : \A j \in 1 .. Len(front) :
               i < j =>
                 Cardinality({k \in lines : {voidLog'[k].i, voidLog'[k].j} = {i - 1, j - 1}})
                   = IF Near(i, j) THEN 1 ELSE 0
          /\ \A k \in lines :
               LET e == voidLog'[k]
               IN /\ 0 <= e.i /\ e.i < e.j /\ e.j < Len(front)
                  /\ e.from = <<front[e.i + 1].x, front[e.i + 1].y>>
                  /\ e.to = <<front[e.j + 1].x, front[e.j + 1].y>>
                  /\ e.opacity >= 0 /\ e.opacity <= 1000
                  /\ e.opacity =
                       ((100 * U - Dist(dx(e.i + 1, e.j + 1), dy(e.i + 1, e.j + 1))) * 1000)
                         \div (100 * U)]_vars

\* A frame of three front-layer particles with a pair in range and a pair
\* out of range
C19_Witness ==
  /\ time = 2
  /\ voidLog[1].w = width
  /\ Len(particleLayers[1]) = 3
  /\ \A p \in AllParticles : p.fillColor # << >>
  /\ Cardinality({k \in 1 .. Len(voidLog) : voidLog[k].op = "line"}) \in {1, 2}

\* C20: each update leaves each velocity component with
\* |v'| <= 0.99 (|v| + 0.015 (1 - 0.3 layer)), and no component ever exceeds
\* 99 * 0.015 * (1 - 0.3 layer) <= 1.485.
C20_SpeedBounded ==
  [][/\ (loaded /\ time' = time + 1) =>
          \A l \in 1 .. 3 : \A i \in 1 .. Len(particleLayers[l]) :
            LET p == particleLayers[l][i]
                q == particleLayers'[l][i]
                F == 15 * (10 - 3 * p.layer) * ((U * V) \div 10000)
            IN /\ 100 * Abs(q.vx) <= 99 * (Abs(p.vx) + F)
               /\ 100 * Abs(q.vy) <= 99 * (Abs(p.vy) + F)
     /\ \A l \in 1 .. 3 : \A i \in 1 .. Len(particleLayers'[l]) :
          LET q == particleLayers'[l][i]
              top == 99 * 15 * (10 - 3 * q.layer) * ((U * V) \div 10000)
          IN /\ Abs(q.vx) <= top /\ Abs(q.vy) <= top
             /\ top <= 1485 * ((U * V) \div 1000)]_vars

\* A frame in which the pointer has pushed a particle beyond the highest
\* speed a particle starts with
C20_Witness ==
  /\ time = 2
  /\ mouse.present
  /\ \E p \in AllParticles : Abs(p.vx) > 10000 * (10 - 3 * p.layer)

\* ---------------------------------------------------------------- C21
\* C21: when cleanupAll returns, the registry's intervals, timeouts and
\* abortControllers are empty, every controller that was registered is
\* aborted, and none of the timers registered before the call is pending any
\* more; as timers are only ever created under ids not used before, no
\* callback registered before the call can run after it.
C21_CleanupClearsAll ==
  [][/\ cleanupAll =>
          /\ intervals' = {} /\ timeouts' = {} /\ abortControllers' = {}
          /\ abortControllers \subseteq aborted'
          /\ \A t \in timers : t.id \in intervals \cup timeouts => t \notin timers'
          /\ \A t \in timers' : t.id \notin intervals \cup timeouts
     /\ \A t \in timers' \ timers : t.id >= timerNext /\ timerNext' > t.id
     /\ \A t \in timers : t.id < timerNext
    ]_vars

\* cleanupAll has run while the glitch interval and a Konami timeout were
\* registered: the animation it interrupted never ends
C21_Witness ==
  /\ loaded
  /\ abortControllers = {} /\ {"scroll", "konami"} \subseteq aborted
  /\ isAnimating /\ messages = 1
  /\ timers = {} /\ intervals = {} /\ timeouts = {}

\* ---------------------------------------------------------------- C22
\* C22: cleanupRegistry.timeouts is exactly the set of ids of the timeouts
\* created through registerTimeout that are still pending (neither fired nor
\* cleared), also right after a firing timeout has registered another one.
C22_TimeoutsExact ==
  /\ timeouts = {t.id : t \in {u \in timers : u.kind = "timeout"}}
  /\ \A t, u \in timers : t.id = u.id => t = u

\* The hide timeout has fired and registered the removal timeout
C22_Witness ==
  /\ \E t \in timers : t.cb = "konamiRemove" /\ timeouts = {t.id}
  /\ isAnimating

\* ---------------------------------------------------------------- C23
\* C23: a keydown heard while no animation runs, after which the ten most
\* recent such keys are the Konami sequence, triggers the easter egg.
C23_TriggeredOnTenthKey ==
  [][(recentKeys' = KonamiSequence /\ recentKeys # KonamiSequence)
       => (isAnimating' /\ messages' = messages + 1)]_vars

\* ---------------------------------------------------------------- C24
\* C24: konamiIndex stays within 0..9 and at most one message exists; while
\* isAnimating no step changes konamiIndex or adds a message; and isAnimating
\* falls only in the step in which the removal timeout takes the message away.
C24_OneEggAtATime ==
  [][/\ konamiIndex' \in 0 .. 9
     /\ messages' \in 0 .. 1
     /\ isAnimating => (konamiIndex' = konamiIndex /\ messages' <= messages)
     /\ (isAnimating /\ ~isAnimating') =>
          /\ messages = 1 /\ messages' = 0
          /\ \E t \in timers : t.cb = "konamiRemove" /\ t \notin timers'
     /\ (~isAnimating /\ isAnimating') => (messages = 0 /\ messages' = 1)
    ]_vars

\* The egg is on display and the detector rests at index 0
C24_Witness == isAnimating /\ messages = 1 /\ messageVisible /\ konamiIndex = 0

\* ---------------------------------------------------------------- C25
PendingProgress == {r \in rafQueue : r.cb = "updateProgress"}

\* C25: at most one updateProgress callback is pending, ticking is true
\* exactly while one is, and after every scroll event heard updateProgress
\* runs.
C25_Throttled ==
  /\ [](Cardinality(PendingProgress) <= 1 /\ (ticking <=> PendingProgress # {}))
  /\ (progressStale ~> ~progressStale)

\* A scroll heard while the bar shows an earlier scroll's position
C25_Witness == progress > 0 /\ ticking /\ progressStale /\ scrollY = 0

\* ---------------------------------------------------------------- C26
\* C26: a click sets data-theme and the stored preference to the opposite of
\* the stored preference, or of the system preference when none is stored;
\* a system change touches data-theme only when no preference is stored, and
\* a stored preference is never dropped.
C26_ToggleOpposite ==
  [][/\ ThemeClick =>
          LET current == IF storedTheme \in {"light", "dark"} THEN storedTheme
                         ELSE IF systemLight THEN "light" ELSE "dark"
              opposite == IF current = "light" THEN "dark" ELSE "light"
          IN dataTheme' = opposite /\ storedTheme' = opposite
     /\ systemLight' # systemLight =>
          /\ storedTheme' = storedTheme
          /\ storedTheme # "none" => dataTheme' = dataTheme
          /\ dataTheme' # dataTheme => dataTheme' = "none"
     /\ storedTheme # "none" => storedTheme' \in {"light", "dark"}
    ]_vars

\* A click has stored the opposite of the system preference and the system
\* has since changed to it
C26_Witness ==
  /\ storedTheme = "dark" /\ dataTheme = "dark" /\ ~systemLight
  /\ rafNext > 1

\* ---------------------------------------------------------------- C27
\* C27: every animate frame adds exactly 1 to time and its particle updates
\* read the value after the increment; no other step changes time; every
\* draw frame paints with waveTime and then adds exactly 1; no step changes
\* both counters.
C27_FrameCounters ==
  [][/\ animationId' # animationId =>
          /\ time' = time + 1
          /\ \A l \in 1 .. 3 : \A i \in 1 .. Len(particleLayers'[l]) :
               LET q == particleLayers'[l][i]
               IN q.size = TDiv(q.baseSize * (10 * SinScale
                                  + 3 * Sin(time' * q.pulseSpeed + q.pulseOffset)),
                                10 * SinScale)
     /\ animationId' = animationId => time' = time
     /\ waveAnimationId' # waveAnimationId =>
          /\ waveTime' = waveTime + 1
          /\ \A l \in 1 .. 3 : waveLog'[l].time = waveTime
     /\ waveAnimationId' = waveAnimationId => waveTime' = waveTime
     /\ ~(time' # time /\ waveTime' # waveTime)
    ]_vars

\* Two Particle Field frames and a Wave Field frame have run
C27_Witness ==
  /\ time = 2 /\ waveTime >= 1
  /\ \E l \in 1 .. 3 : Len(particleLayers[l]) > 0

====
